---- MODULE Spec2Model ----
(***************************************************************************)
(* The incremental crawl-and-merge pipeline of custom_web_bot: the URL     *)
(* reconcilers (RssHandler.update_file, CustomScraper.process), the index  *)
(* allocation of ArticleExtractor, the fetch stage and merge_files, driven *)
(* by the loop of runner.py over the entries of the config list (Spec,     *)
(* SpecH with the history of the runs, SpecCfg with config entries that    *)
(* lack article_cnt, SpecDone with the runs that are never cut short,      *)
(* SpecMerge with merge_files alone, SpecCommit with the file accesses of  *)
(* merge_files interleaved between two runner processes); the Summariser   *)
(* stage over the records of one DeltaSet (SpecSum, SpecCap); the Tagger   *)
(* stage (SpecTag); the tables of DBHandler (SpecDB); the six stages of    *)
(* one iteration of runner.py (SpecIter) and of the whole loop (SpecRun).  *)
(*                                                                         *)
(* A URL is a number of 1..NUrls; the order of the numbers stands for the  *)
(* lexicographic order of the URL strings that Python's sorted() uses.     *)
(* A JSON file that does not exist reads as the empty list everywhere in   *)
(* the code (each reader creates it as [] or skips it), so it is modelled  *)
(* as the empty list.  urls/{id}.json is held as a set: every reader of    *)
(* the file applies set() to what it loads.                                *)
(***************************************************************************)
EXTENDS Integers, Sequences, FiniteSets, TLC

\* Bounds of the model.
NUrls == 2      \* size of the URL universe
MaxCnt == 3     \* how far article_cnt may grow past its deployed value
NSum == 3       \* the largest DeltaSet of a Summariser stage, any records
NBatch == 6     \* the largest DeltaSet of a Summariser stage, full records
MaxRows == 3    \* the largest AUTOINCREMENT id of table articles

URLs == 1..NUrls

\* The entries of sample_mapping.json at deployment.  The xpath source is
\* deployed with an offset of 8, so that its indices cross from one digit
\* to two.
InitMaps ==
  << [id |-> "rss1", type |-> "rss", article_cnt |-> 0],
     [id |-> "xp1", type |-> "xpath", article_cnt |-> 8] >>

Ids == {InitMaps[k].id : k \in 1..Len(InitMaps)}

VARIABLES
  map_file,       \* sample_mapping.json: the persisted config list
  urls_file,      \* urls/{id}.json: the cumulative URLSet of each source
  new_urls_file,  \* new_urls/{id}.json: the DeltaSet list of each source
  articles,       \* articles/{fileid}.json: the ArticleRecord files
  pc,             \* position of the runner process; no process runs at
                  \* "idle" (never run), "done" (loop ended), "stopped"
  maps,           \* runner.py: the config list loaded at process start
  cur,            \* runner.py: position of conf in maps
  extractor,      \* the ArticleExtractor of the current iteration
  site,           \* environment: the URLs the site of each source can list
  cand,           \* history: what discovery returned in this iteration
  results,        \* history: the URLs whose fetch succeeded in this iteration
  summariser,     \* the Summariser of the current iteration
  task,           \* position of each process_article task of the gather
  semaphore,      \* value of summariser.semaphore
  tt,             \* the Tagger of the current iteration
  agent,          \* the DBHandler of the current iteration
  db_articles,    \* news.db: the rows of table articles
  db_seq,         \* news.db: the last AUTOINCREMENT id of articles
  db_tags,        \* news.db: the rows of table tags
  db_subtags,     \* news.db: the rows of table subtags
  db_article_tags,     \* news.db: the rows of table article_tags
  db_article_subtags,  \* news.db: the rows of table article_subtags
  merge,          \* the calls of merge_files that run side by side
  merged,         \* history: merge_files ran and no DeltaSet was written since
  prev_cand,      \* history: candidates of the last reconcile since a merge
  snap,           \* history: the previous allocation of each source
  alloc_log       \* history: every (id, index, url) map_urls has assigned

prog == << map_file, urls_file, new_urls_file, articles, pc, maps, cur,
           extractor, site, cand, results >>

hist == << merged, prev_cand, snap, alloc_log >>

sumv == << summariser, task, semaphore >>

db == << db_articles, db_seq, db_tags, db_subtags, db_article_tags,
         db_article_subtags >>

objs == << tt, agent >>

calls == << merge >>

\* what the reconcile, fetch and commit steps of the runner leave alone
stages == << sumv, objs, db, calls >>

vars == << prog, hist, stages >>

(***************************************************************************)
(* Pure helpers                                                            *)
(***************************************************************************)
Range(s) == {s[k] : k \in 1..Len(s)}

Min(S) == CHOOSE m \in S : \A x \in S : m <= x

\* data.get(key, default) of a dict
get(data, key, default) == IF key \in DOMAIN data THEN data[key] ELSE default

\* sorted(S) of Python
RECURSIVE sorted(_)
sorted(S) == IF S = {} THEN << >>
             ELSE << Min(S) >> \o sorted(S \ {Min(S)})

\* list(S) of Python for a set S: the iteration order of a set of strings
\* is not fixed (string hashing is seeded per process), so every order is
\* a possible outcome.
ListOfSet(S) ==
  {s \in [1..Cardinality(S) -> S] : \A i, j \in 1..Cardinality(S) :
                                       s[i] = s[j] => i = j}

DigitChar == << "0", "1", "2", "3", "4", "5", "6", "7", "8", "9" >>

\* str(i) of Python for i >= 0, as the sequence of its characters
RECURSIVE str(_)
str(i) == IF i < 10 THEN << DigitChar[i + 1] >>
          ELSE str(i \div 10) \o << DigitChar[(i % 10) + 1] >>

\* s.zfill(w) of Python for a string of digits
RECURSIVE zfill(_, _)
zfill(s, w) == IF Len(s) >= w THEN s ELSE zfill(<< "0" >> \o s, w)

ZfillWidth == 4

\* f"{self.id}_{str(i).zfill(4)}"
fileid(id, i) == << id, "_" >> \o zfill(str(i), ZfillWidth)

(***************************************************************************)
(* RssHandler.update_file (url_extractor.py)                               *)
(***************************************************************************)
\* update_file with the known URLs not taken out of the delta
UpdateFileNewUrlsKeepsKnown(urls, existing_urls) == sorted(urls)

\* self.new_urls = sorted(set(urls) - set(existing_urls))
UpdateFileNewUrls(urls, existing_urls) == sorted(urls \ existing_urls)

\* update_file storing the candidates in place of the union
UpdateFileAllUrlsReplaces(urls, existing_urls) == urls

\* all_urls = list(set(urls) | set(existing_urls)), read back as a set
UpdateFileAllUrls(urls, existing_urls) == urls \cup existing_urls

(***************************************************************************)
(* CustomScraper.process (xpathsraper.py)                                  *)
(***************************************************************************)
\* new_urls = cur_urls - old_urls; json.dump(list(new_urls), ...): the
\* lists the dump can write
ProcessNewUrls(cur_urls, old_urls) == ListOfSet(cur_urls \ old_urls)

(***************************************************************************)
(* ArticleExtractor (article_extractor.py)                                 *)
(***************************************************************************)
\* the last position of url in new_urls: a later assignment to
\* self.map[url] overwrites an earlier one
LastPos(new_urls, url) ==
  CHOOSE i \in 1..Len(new_urls) :
    /\ new_urls[i] = url
    /\ \A j \in (i + 1)..Len(new_urls) : new_urls[j] # url

\* map_urls enumerating from 0
map_urlsFromZero(new_urls, article_cnt) ==
  [url \in Range(new_urls) |-> article_cnt + LastPos(new_urls, url) - 1]

\* for i, url in enumerate(self.new_urls, start=1):
\*     self.map[url] = self.article_cnt + i
map_urls(new_urls, article_cnt) ==
  [url \in Range(new_urls) |-> article_cnt + LastPos(new_urls, url)]

NoExtractor == [new_urls |-> << >>, map |-> << >>, article_cnt |-> 0]

\* save_json: the record written for one successful result (its date, the
\* day of the run, is left out)
save_json(url, html, path) ==
  [url |-> url, html |-> html, path |-> path, title |-> ""]

\* extract_articles with the loop over the results left at the first
\* result that did not succeed
ProcessedUntilFailure(new_urls, ok) ==
  {new_urls[i] : i \in {j \in 1..Len(new_urls) :
                          \A k \in 1..j : new_urls[k] \in ok}}

\* for result in results: if result.success: self.process_result(result):
\* the URLs whose record is saved (arun_many returns one result for each
\* URL of new_urls)
Processed(new_urls, ok) == {url \in Range(new_urls) : url \in ok}

\* the html a successful result can carry:
\* result.markdown or result.html or ""
Htmls == {"", "text"}

(***************************************************************************)
(* merge_files (dbmanager.py)                                              *)
(***************************************************************************)
\* merge_files writing the delta back without the cumulative set
MergeAllUrlsKeepsDelta(new_urls, old_urls) == {new_urls}

\* all_urls = list(set(new_urls) | set(old_urls)): the lists it can be
MergeAllUrls(new_urls, old_urls) == ListOfSet(Range(new_urls) \cup old_urls)

\* the commit storing the size of the delta instead of adding it
MergeArticleCntAssigns(article_cnt, new_url_cnt) == new_url_cnt

\* entry["article_cnt"] = entry.get("article_cnt", 0) + new_url_cnt
MergeArticleCnt(article_cnt, new_url_cnt) == article_cnt + new_url_cnt

\* the first entry of map_data whose id is id (0: none)
FirstEntry(map_data, id) ==
  IF \E k \in 1..Len(map_data) : map_data[k].id = id
  THEN Min({k \in 1..Len(map_data) : map_data[k].id = id})
  ELSE 0

\* the commit advancing the article_cnt of every entry
MergeMapDataEveryEntry(map_data, id, new_urls) ==
  [k \in 1..Len(map_data) |->
     [f \in DOMAIN map_data[k] \cup {"article_cnt"} |->
        IF f = "article_cnt"
        THEN MergeArticleCnt(get(map_data[k], "article_cnt", 0), Len(new_urls))
        ELSE map_data[k][f]]]

\* lines 230-241: the config list after the call
MergeMapData(map_data, id, new_urls) ==
  LET new_url_cnt == Len(new_urls)
      k == FirstEntry(map_data, id)
      entry == map_data[k]
  IN IF new_url_cnt > 0 /\ k # 0
     THEN [map_data EXCEPT ![k] =
             [f \in DOMAIN entry \cup {"article_cnt"} |->
                IF f = "article_cnt"
                THEN MergeArticleCnt(get(entry, "article_cnt", 0), new_url_cnt)
                ELSE entry[f]]]
     ELSE map_data

(***************************************************************************)
(* State after deployment: the config list as written, no file of a source *)
(* yet, no process running.  One source's site lists any of the URLs; the  *)
(* other's lists none (its discovery finds nothing).                       *)
(***************************************************************************)
Sites == {[id \in Ids |-> IF id = live THEN URLs ELSE {}] : live \in Ids}

NoSummariser == [new_filepaths |-> << >>]

NoTagger == [new_filepaths |-> << >>]

NoDBHandler == [new_filepaths |-> << >>]

\* no call of merge_files runs beside the runner
NoMerge == [id \in Ids |-> [pc |-> "none"]]

NoCand == [valid |-> FALSE, cand |-> {}]

NoSnap == [valid |-> FALSE, fetched |-> FALSE, cand |-> {}, cnt |-> 0,
           delta |-> << >>, map |-> << >>]

InitFiles ==
  /\ urls_file = [id \in Ids |-> {}]
  /\ new_urls_file = [id \in Ids |-> << >>]
  /\ articles = << >>
  /\ pc = "idle"
  /\ maps = << >>
  /\ cur = 0
  /\ extractor = NoExtractor
  /\ site \in Sites
  /\ cand = {}
  /\ results = {}
  /\ merged = [id \in Ids |-> FALSE]
  /\ prev_cand = [id \in Ids |-> NoCand]
  /\ snap = [id \in Ids |-> NoSnap]
  /\ alloc_log = {}
  /\ summariser = NoSummariser
  /\ task = << >>
  /\ semaphore = 0
  /\ tt = NoTagger
  /\ agent = NoDBHandler
  /\ merge = NoMerge
  /\ db_articles = {}
  /\ db_seq = 0
  /\ db_tags = {}
  /\ db_subtags = {}
  /\ db_article_tags = {}
  /\ db_article_subtags = {}

Init == map_file = InitMaps /\ InitFiles

\* sample_mapping.json as an operator can write it: the entry of a source
\* added without an article_cnt
InitMapsNoCnt ==
  [k \in 1..Len(InitMaps) |->
     IF InitMaps[k].article_cnt = 0
     THEN [id |-> InitMaps[k].id, type |-> InitMaps[k].type]
     ELSE InitMaps[k]]

InitCfg == map_file \in {InitMaps, InitMapsNoCnt} /\ InitFiles

conf == maps[cur]

(***************************************************************************)
(* runner.py lines 15-16: a process starts and loads the config list.      *)
(* The guard keeps the growth of article_cnt within MaxCnt: one run adds   *)
(* at most NUrls.                                                          *)
(***************************************************************************)
NotRunning == {"idle", "done", "stopped"}

LoadMaps ==
  /\ pc \in NotRunning
  /\ \A k \in 1..Len(map_file) :
       get(map_file[k], "article_cnt", 0) + NUrls
         <= InitMaps[k].article_cnt + MaxCnt
  /\ maps' = map_file
  /\ cur' = 1
  /\ pc' = "reconcile"
  /\ UNCHANGED << map_file, urls_file, new_urls_file, articles, extractor,
                  site, cand, results >>

(***************************************************************************)
(* runner.py lines 20-22: RssHandler(conf).update_file() with the list     *)
(* extract_urls returned, given as its set of URLs.                        *)
(***************************************************************************)
update_file(urls) ==
  /\ pc = "reconcile"
  /\ conf.type = "rss"
  /\ urls \subseteq site[conf.id]
  /\ IF urls = {}
     THEN UNCHANGED << new_urls_file, urls_file >>
     ELSE LET existing_urls == urls_file[conf.id]
          IN /\ new_urls_file' = [new_urls_file EXCEPT ![conf.id] =
                                    UpdateFileNewUrls(urls, existing_urls)]
             /\ urls_file' = [urls_file EXCEPT ![conf.id] =
                                UpdateFileAllUrls(urls, existing_urls)]
  /\ cand' = urls
  /\ pc' = "extractor"
  /\ UNCHANGED << map_file, articles, maps, cur, extractor, site, results >>

(***************************************************************************)
(* runner.py lines 23-25: CustomScraper(conf).process() with the URLs      *)
(* fetch_urls returned.  Only new_urls/{id}.json is written.               *)
(***************************************************************************)
process(cur_urls) ==
  /\ pc = "reconcile"
  /\ conf.type = "xpath"
  /\ cur_urls \subseteq site[conf.id]
  /\ LET old_urls == urls_file[conf.id]
     IN \E new_urls \in ProcessNewUrls(cur_urls, old_urls) :
          new_urls_file' = [new_urls_file EXCEPT ![conf.id] = new_urls]
  /\ cand' = cur_urls
  /\ pc' = "extractor"
  /\ UNCHANGED << map_file, urls_file, articles, maps, cur, extractor, site,
                  results >>

(***************************************************************************)
(* runner.py line 27: ArticleExtractor(conf): reads new_urls/{id}.json and *)
(* runs map_urls from conf's article_cnt.                                  *)
(***************************************************************************)
ArticleExtractorInit ==
  /\ pc = "extractor"
  /\ LET new_urls == new_urls_file[conf.id]
         article_cnt == get(conf, "article_cnt", 0)
     IN extractor' = [new_urls |-> new_urls,
                      map |-> map_urls(new_urls, article_cnt),
                      article_cnt |-> article_cnt + Len(new_urls)]
  /\ pc' = "extract_articles"
  /\ UNCHANGED << map_file, urls_file, new_urls_file, articles, maps, cur,
                  site, cand, results >>

(***************************************************************************)
(* runner.py line 28: extract_articles: every successful result is saved   *)
(* under the index of its URL; ok is the set of URLs whose fetch succeeded *)
(* and html the content of each (a result carries the URL it was asked     *)
(* for); line is where the runner goes on.                                 *)
(***************************************************************************)
ExtractArticles(ok, html, line) ==
  /\ pc = "extract_articles"
  /\ LET done == Processed(extractor.new_urls, ok)
         path(url) == fileid(conf.id, extractor.map[url])
         written == {path(url) : url \in done}
         urlOf(p) == CHOOSE url \in done : path(url) = p
     IN articles' = [p \in (DOMAIN articles) \cup written |->
                       IF p \in written
                       THEN save_json(urlOf(p), html[urlOf(p)], p)
                       ELSE articles[p]]
  /\ results' = ok
  /\ pc' = line
  /\ UNCHANGED << map_file, urls_file, new_urls_file, maps, cur, extractor,
                  site, cand >>

\* the fetch of a run whose stages of lines 30-38 are passed over: they
\* read conf and new_urls/{id}.json and write records and news.db only
extract_articles(ok, html) == ExtractArticles(ok, html, "merge_files")

(***************************************************************************)
(* runner.py line 40: merge_files(conf, data_dir, map_path), then the loop *)
(* moves to the next entry of maps, or the process ends.                   *)
(***************************************************************************)
merge_files ==
  /\ pc = "merge_files"
  /\ LET id == conf.id
         new_urls == new_urls_file[id]
         old_urls == urls_file[id]
     IN /\ \E all_urls \in MergeAllUrls(new_urls, old_urls) :
             new_urls_file' = [new_urls_file EXCEPT ![id] = all_urls]
        /\ map_file' = MergeMapData(map_file, id, new_urls)
  /\ IF cur < Len(maps)
     THEN cur' = cur + 1 /\ pc' = "reconcile" /\ UNCHANGED maps
     ELSE cur' = 0 /\ pc' = "done" /\ maps' = << >>
  /\ extractor' = NoExtractor
  /\ cand' = {}
  /\ results' = {}
  /\ UNCHANGED << urls_file, articles, site >>

(***************************************************************************)
(* The process stops (killed, or an uncaught exception) at any point of    *)
(* the loop: what it held in memory is gone, the files stay.               *)
(***************************************************************************)
Stop ==
  /\ pc \notin NotRunning
  /\ pc' = "stopped"
  /\ maps' = << >>
  /\ cur' = 0
  /\ extractor' = NoExtractor
  /\ cand' = {}
  /\ results' = {}
  /\ UNCHANGED << map_file, urls_file, new_urls_file, articles, site >>

(***************************************************************************)
(* Spec: the pipeline alone.                                               *)
(***************************************************************************)
Next ==
  \/ LoadMaps /\ UNCHANGED << hist, stages >>
  \/ \E urls \in SUBSET URLs :
       update_file(urls) /\ UNCHANGED << hist, stages >>
  \/ \E cur_urls \in SUBSET URLs :
       process(cur_urls) /\ UNCHANGED << hist, stages >>
  \/ ArticleExtractorInit /\ UNCHANGED << hist, stages >>
  \/ \E ok \in SUBSET Range(extractor.new_urls) :
       \E html \in [ok -> Htmls] :
         extract_articles(ok, html) /\ UNCHANGED << hist, stages >>
  \/ merge_files /\ UNCHANGED << hist, stages >>
  \/ Stop /\ UNCHANGED << hist, stages >>

Spec == Init /\ [][Next]_vars

(***************************************************************************)
(* SpecH: the pipeline with the history of its runs recorded.              *)
(***************************************************************************)
\* a reconcile of conf was called; wrote: it wrote the DeltaSet file
H_reconcile(wrote) ==
  /\ prev_cand' = [prev_cand EXCEPT ![conf.id] =
                     [valid |-> TRUE, cand |-> cand']]
  /\ merged' = IF wrote THEN [merged EXCEPT ![conf.id] = FALSE] ELSE merged
  /\ UNCHANGED << snap, alloc_log >>

H_map_urls ==
  /\ snap' = [snap EXCEPT ![conf.id] =
                [valid |-> TRUE, fetched |-> FALSE, cand |-> cand,
                 cnt |-> conf.article_cnt, delta |-> extractor'.new_urls,
                 map |-> extractor'.map]]
  /\ alloc_log' = alloc_log \cup
       {<< conf.id, extractor'.map[url], url >> : url \in DOMAIN extractor'.map}
  /\ UNCHANGED << merged, prev_cand >>

H_extract_articles ==
  /\ snap' = [snap EXCEPT ![conf.id].fetched = TRUE]
  /\ UNCHANGED << merged, prev_cand, alloc_log >>

H_merge_files ==
  /\ merged' = [merged EXCEPT ![conf.id] = TRUE]
  /\ prev_cand' = [prev_cand EXCEPT ![conf.id] = NoCand]
  /\ snap' = [snap EXCEPT ![conf.id] = NoSnap]
  /\ UNCHANGED alloc_log

NextH ==
  \/ LoadMaps /\ UNCHANGED << hist, stages >>
  \/ \E urls \in SUBSET URLs :
       update_file(urls) /\ H_reconcile(urls # {}) /\ UNCHANGED stages
  \/ \E cur_urls \in SUBSET URLs :
       process(cur_urls) /\ H_reconcile(TRUE) /\ UNCHANGED stages
  \/ ArticleExtractorInit /\ H_map_urls /\ UNCHANGED stages
  \/ \E ok \in SUBSET Range(extractor.new_urls) :
       \E html \in [ok -> Htmls] :
         extract_articles(ok, html) /\ H_extract_articles /\ UNCHANGED stages
  \/ merge_files /\ H_merge_files /\ UNCHANGED stages
  \/ Stop /\ UNCHANGED << hist, stages >>

SpecH == Init /\ [][NextH]_vars

(***************************************************************************)
(* SpecDone: the pipeline with its history when no run is stopped: every   *)
(* process that starts goes through the whole config list.                 *)
(***************************************************************************)
NextDone ==
  \/ LoadMaps /\ UNCHANGED << hist, stages >>
  \/ \E urls \in SUBSET URLs :
       update_file(urls) /\ H_reconcile(urls # {}) /\ UNCHANGED stages
  \/ \E cur_urls \in SUBSET URLs :
       process(cur_urls) /\ H_reconcile(TRUE) /\ UNCHANGED stages
  \/ ArticleExtractorInit /\ H_map_urls /\ UNCHANGED stages
  \/ \E ok \in SUBSET Range(extractor.new_urls) :
       \E html \in [ok -> Htmls] :
         extract_articles(ok, html) /\ H_extract_articles /\ UNCHANGED stages
  \/ merge_files /\ H_merge_files /\ UNCHANGED stages

SpecDone == Init /\ [][NextDone]_vars

(***************************************************************************)
(* SpecMerge: merge_files at line 40 of a run, for either source, over the *)
(* files that runs over two sites that both list URLs can have left: the   *)
(* DeltaSet of the rss source is within its cumulative set, the xpath      *)
(* source has no cumulative set, either source may have a record.          *)
(***************************************************************************)
InitMerge ==
  /\ map_file = InitMaps
  /\ maps = InitMaps
  /\ cur \in 1..Len(InitMaps)
  /\ \E U \in SUBSET URLs : \E S \in SUBSET U : \E T \in SUBSET URLs :
       \E delta \in ListOfSet(S) : \E xdelta \in ListOfSet(T) :
         /\ urls_file = [id \in Ids |-> IF id = InitMaps[1].id THEN U ELSE {}]
         /\ new_urls_file = [id \in Ids |-> IF id = InitMaps[1].id
                                             THEN delta ELSE xdelta]
  /\ \E recs \in SUBSET (1..Len(InitMaps)) :
       articles =
         [p \in {fileid(InitMaps[k].id, InitMaps[k].article_cnt + 1) :
                   k \in recs} |-> save_json(1, "text", p)]
  /\ pc = "merge_files"
  /\ extractor = NoExtractor
  /\ site = [id \in Ids |-> URLs]
  /\ cand = {}
  /\ results = {}
  /\ merged = [id \in Ids |-> FALSE]
  /\ prev_cand = [id \in Ids |-> NoCand]
  /\ snap = [id \in Ids |-> NoSnap]
  /\ alloc_log = {}
  /\ summariser = NoSummariser
  /\ task = << >>
  /\ semaphore = 0
  /\ tt = NoTagger
  /\ agent = NoDBHandler
  /\ merge = NoMerge
  /\ db_articles = {}
  /\ db_seq = 0
  /\ db_tags = {}
  /\ db_subtags = {}
  /\ db_article_tags = {}
  /\ db_article_subtags = {}

NextMerge == merge_files /\ UNCHANGED << hist, stages >>

SpecMerge == InitMerge /\ [][NextMerge]_vars

(***************************************************************************)
(* SpecCommit: two processes of runner.py are at line 40 at the same time, *)
(* each for another source; the file reads and writes of their calls of    *)
(* merge_files come in any order.  The files are those of InitMerge.       *)
(***************************************************************************)
\* a call that has not read anything yet
StartOfMerge ==
  [pc |-> "new_urls", new_urls |-> << >>, old_urls |-> {}, map_data |-> << >>]

InitCommit ==
  /\ map_file = InitMaps
  /\ maps = << >>
  /\ cur = 0
  /\ \E U \in SUBSET URLs : \E S \in SUBSET U : \E T \in SUBSET URLs :
       \E delta \in ListOfSet(S) : \E xdelta \in ListOfSet(T) :
         /\ urls_file = [id \in Ids |-> IF id = InitMaps[1].id THEN U ELSE {}]
         /\ new_urls_file = [id \in Ids |-> IF id = InitMaps[1].id
                                             THEN delta ELSE xdelta]
  /\ articles = << >>
  /\ pc = "idle"
  /\ extractor = NoExtractor
  /\ site = [id \in Ids |-> URLs]
  /\ cand = {}
  /\ results = {}
  /\ merged = [id \in Ids |-> FALSE]
  /\ prev_cand = [id \in Ids |-> NoCand]
  /\ snap = [id \in Ids |-> NoSnap]
  /\ alloc_log = {}
  /\ summariser = NoSummariser
  /\ task = << >>
  /\ semaphore = 0
  /\ tt = NoTagger
  /\ agent = NoDBHandler
  /\ merge = [id \in Ids |-> StartOfMerge]
  /\ db_articles = {}
  /\ db_seq = 0
  /\ db_tags = {}
  /\ db_subtags = {}
  /\ db_article_tags = {}
  /\ db_article_subtags = {}

\* dbmanager.py lines 215-216: new_urls = json.load(f)
read_new_urls(id) ==
  /\ merge[id].pc = "new_urls"
  /\ merge' = [merge EXCEPT ![id].new_urls = new_urls_file[id],
                            ![id].pc = "old_urls"]
  /\ UNCHANGED << map_file, new_urls_file >>

\* dbmanager.py lines 222-223: old_urls = json.load(f)
read_old_urls(id) ==
  /\ merge[id].pc = "old_urls"
  /\ merge' = [merge EXCEPT ![id].old_urls = urls_file[id],
                            ![id].pc = "all_urls"]
  /\ UNCHANGED << map_file, new_urls_file >>

\* dbmanager.py lines 225-231: all_urls is written to new_urls/{id}.json;
\* the call returns when new_urls is empty
write_all_urls(id) ==
  /\ merge[id].pc = "all_urls"
  /\ \E all_urls \in MergeAllUrls(merge[id].new_urls, merge[id].old_urls) :
       new_urls_file' = [new_urls_file EXCEPT ![id] = all_urls]
  /\ merge' = [merge EXCEPT ![id].pc =
                 IF Len(merge[id].new_urls) > 0 THEN "map_data"
                 ELSE "returned"]
  /\ UNCHANGED map_file

\* dbmanager.py lines 232-233: map_data = json.load(f)
read_map_data(id) ==
  /\ merge[id].pc = "map_data"
  /\ merge' = [merge EXCEPT ![id].map_data = map_file,
                            ![id].pc = "dump"]
  /\ UNCHANGED << map_file, new_urls_file >>

\* dbmanager.py lines 235-241: the entry is advanced in map_data and
\* map_data is written to the config list
write_map_data(id) ==
  /\ merge[id].pc = "dump"
  /\ map_file' = MergeMapData(merge[id].map_data, id, merge[id].new_urls)
  /\ merge' = [merge EXCEPT ![id].pc = "returned"]
  /\ UNCHANGED new_urls_file

\* what no step of a call of merge_files changes
outside == << urls_file, articles, pc, maps, cur, extractor, site, cand,
              results, hist, sumv, objs, db >>

NextCommit ==
  \/ \E id \in Ids : read_new_urls(id) /\ UNCHANGED outside
  \/ \E id \in Ids : read_old_urls(id) /\ UNCHANGED outside
  \/ \E id \in Ids : write_all_urls(id) /\ UNCHANGED outside
  \/ \E id \in Ids : read_map_data(id) /\ UNCHANGED outside
  \/ \E id \in Ids : write_map_data(id) /\ UNCHANGED outside

SpecCommit == InitCommit /\ [][NextCommit]_vars

(***************************************************************************)
(* SpecCfg: the pipeline over a config list whose entries may lack         *)
(* article_cnt.                                                            *)
(***************************************************************************)
SpecCfg == InitCfg /\ [][Next]_vars

(***************************************************************************)
(* Summariser (summariser.py)                                              *)
(*                                                                         *)
(* A chat response is a sequence of tokens: the fence (three backticks),   *)
(* the word "json", JSON texts and prose.  The tasks of                    *)
(* process_all_articles run on one event loop: a task runs without         *)
(* interruption from one await to the next.  The await of llm_call is      *)
(* taken as a point where the task may be suspended; llm.invoke as written *)
(* blocks the loop, which is the schedule where each call returns before   *)
(* the next task starts.                                                   *)
(***************************************************************************)
MAX_CONCURRENT_SESSIONS == 5

\* the content of a record file that json.load rejects: open(filename, "w")
\* emptied it and json.dump did not finish
Malformed == [malformed |-> TRUE]

\* the paths of lines 59-61 counted from article_cnt
new_filepathsFromOffset(id, article_cnt, new_article_urls) ==
  [k \in 1..Len(new_article_urls) |-> fileid(id, article_cnt + k - 1)]

\* the paths of lines 59-61
new_filepaths(id, article_cnt, new_article_urls) ==
  [k \in 1..Len(new_article_urls) |-> fileid(id, article_cnt + k)]

\* the fence extract_between_backticks looks for
Fence == "<fence>"

\* None of Python, what json.loads makes of null
None == "<None>"

\* the truth value of a string or None: if value
bool(value) == value # "" /\ value # None

\* the JSON texts a response can carry and what json.loads makes of each
JsonTexts ==
  [t \in {"{title,summary,keywords}", "{title}", "{title,summary:null}",
          "[]"} |->
     IF t = "{title,summary,keywords}"
     THEN [type |-> "dict",
           value |-> [title |-> "t", summary |-> "s", keywords |-> << "k" >>]]
     ELSE IF t = "{title}"
     THEN [type |-> "dict", value |-> [title |-> "t"]]
     ELSE IF t = "{title,summary:null}"
     THEN [type |-> "dict", value |-> [title |-> "t", summary |-> None]]
     ELSE [type |-> "list", value |-> << >>]]

\* what llm.invoke(messages).content can be
Responses ==
  { << "prose" >>,
    << Fence, "json", "{title,summary,keywords}", Fence >>,
    << Fence, "{title,summary,keywords}", Fence >>,
    << "prose", Fence, "json", "{title,summary,keywords}", Fence, "prose" >>,
    << Fence, "json", "{title}", Fence >>,
    << Fence, "json", "{title,summary:null}", Fence >>,
    << Fence, "json", "[]", Fence >>,
    << Fence, "json", "prose", Fence >>,
    << Fence, "json", "{title,summary,keywords}" >>,
    << Fence, Fence >> }

\* text.find(fence, from): the first position >= from of a fence, 0: none
find(text, from) ==
  IF \E i \in from..Len(text) : text[i] = Fence
  THEN Min({i \in from..Len(text) : text[i] = Fence})
  ELSE 0

extract_between_backticks(text) ==
  LET start == find(text, 1)
  IN IF start # 0
     THEN LET end == find(text, start + 1)
          IN IF end # 0 THEN SubSeq(text, start + 1, end - 1) ELSE << >>
     ELSE << >>

\* an exception raised inside llm_call
Raised == [type |-> "exception"]

\* json.loads of a text
loads(text) ==
  IF Len(text) = 1 /\ text[1] \in DOMAIN JsonTexts
  THEN JsonTexts[text[1]]
  ELSE Raised

\* lines 86-88: s1[0] of an empty s1 raises; a text that starts with "j"
\* loses its first four characters
llm_call(chat_response) ==
  LET s1 == extract_between_backticks(chat_response)
  IN IF s1 = << >> THEN Raised
     ELSE IF s1[1] = "json" THEN loads(Tail(s1))
     ELSE loads(s1)

\* what a call of the external summarize capability can end in: llm.invoke
\* raises, or it returns a response
Outcomes ==
  {[raises |-> TRUE, chat_response |-> << >>]}
    \cup {[raises |-> FALSE, chat_response |-> r] : r \in Responses}

\* line 112: what await self.llm_call(html_text) gives for each outcome
ResultOf ==
  [o \in Outcomes |->
     IF o.raises THEN Raised ELSE llm_call(o.chat_response)]

\* the outcomes that are a parse failure: no fenced block, fenced content
\* that is not JSON, JSON that is not an object
ParseFailures ==
  {o \in Outcomes : ~ o.raises /\ ResultOf[o].type # "dict"}

\* lines 113-118: data after a result
Summarised(data, result) ==
  [f \in (DOMAIN data \cup {"summary", "title", "keywords"}) \ {"html"} |->
     IF f = "summary" THEN get(result, "summary", "")
     ELSE IF f = "title" THEN get(result, "title", "")
     ELSE IF f = "keywords" THEN get(result, "keywords", << >>)
     ELSE data[f]]

\* process_article setting the fields and writing the file whatever the
\* result is
AfterCallWritesAlways(data, outcome, dumped) ==
  LET result == ResultOf[outcome]
  IN IF ~ dumped THEN Malformed
     ELSE IF result.type = "dict" THEN Summarised(data, result.value)
     ELSE Summarised(data, << >>)

\* lines 111-125, the content of the record file afterwards: result.get of
\* a result that is no dict raises before the file is opened; dumped: the
\* json.dump of line 121 finished
AfterCall(data, outcome, dumped) ==
  LET result == ResultOf[outcome]
  IN IF result.type # "dict" THEN data
     ELSE IF dumped THEN Summarised(data, result.value)
     ELSE Malformed

\* process_article without its two skips (lines 102-108)
ReadNoSkip(files, filename) ==
  IF filename \notin DOMAIN files THEN "done"
  ELSE IF files[filename] = Malformed THEN "raised"
  ELSE "acquire"

\* lines 93-110: where a task is when it has read its record: it returned
\* ("done"), json.load raised out of it ("raised"), or it is at the
\* semaphore ("acquire").  html.strip() of the values of Htmls is empty for
\* "" only.
Read(files, filename) ==
  IF filename \notin DOMAIN files THEN "done"
  ELSE IF files[filename] = Malformed THEN "raised"
  ELSE IF get(files[filename], "html", "") = "" THEN "done"
  ELSE IF bool(get(files[filename], "summary", "")) THEN "done"
  ELSE "acquire"

\* a semaphore that never locks
LockedNever(value) == FALSE

\* Semaphore.locked()
Locked(value) == value = 0

\* Semaphore.acquire by the tasks at the semaphore, in the order of the
\* waiters, from task k on
RECURSIVE Acquire(_, _, _)
Acquire(tasks, value, k) ==
  IF k > Len(tasks) THEN [task |-> tasks, value |-> value]
  ELSE IF tasks[k] = "acquire" /\ ~ Locked(value)
  THEN Acquire([tasks EXCEPT ![k] = "llm_call"], value - 1, k + 1)
  ELSE Acquire(tasks, value, k + 1)

\* the state a Summariser stage starts in: the runner is at line 30 for
\* the first source, whose DeltaSet lists n URLs, n in sizes, and the fetch
\* has left of each a record with or without raw content, or none; full:
\* it has left of each a record with raw content
InitSummariser(sizes, full) ==
  /\ map_file = InitMaps
  /\ urls_file = [id \in Ids |-> {}]
  /\ maps = InitMaps
  /\ cur = 1
  /\ \E n \in sizes :
       /\ new_urls_file = [id \in Ids |-> IF id = InitMaps[1].id
                                          THEN [k \in 1..n |-> k] ELSE << >>]
       /\ \E saved \in (IF full THEN {1..n} ELSE SUBSET (1..n)) :
          \E html \in [saved -> IF full THEN Htmls \ {""} ELSE Htmls] :
            articles =
              [p \in {fileid(InitMaps[1].id, InitMaps[1].article_cnt + k) :
                        k \in saved} |->
                 LET k == CHOOSE k \in saved :
                       p = fileid(InitMaps[1].id, InitMaps[1].article_cnt + k)
                 IN save_json(k, html[k], p)]
  /\ pc = "summariser"
  /\ extractor = NoExtractor
  /\ site = [id \in Ids |-> {}]
  /\ cand = {}
  /\ results = {}
  /\ merged = [id \in Ids |-> FALSE]
  /\ prev_cand = [id \in Ids |-> NoCand]
  /\ snap = [id \in Ids |-> NoSnap]
  /\ alloc_log = {}
  /\ summariser = NoSummariser
  /\ task = << >>
  /\ semaphore = 0
  /\ tt = NoTagger
  /\ agent = NoDBHandler
  /\ merge = NoMerge
  /\ db_articles = {}
  /\ db_seq = 0
  /\ db_tags = {}
  /\ db_subtags = {}
  /\ db_article_tags = {}
  /\ db_article_subtags = {}

(***************************************************************************)
(* runner.py lines 30-31: Summariser(conf), then process_all_articles up   *)
(* to the await of gather: every task has run to its first await.  The     *)
(* stage also starts again after it has ended: the process stops before    *)
(* merge_files and a later run of the runner whose reconcile and fetch     *)
(* write nothing (discovery finds nothing, every fetch fails) comes to     *)
(* line 30 with the same offset and DeltaSet.                              *)
(***************************************************************************)
process_all_articles ==
  /\ pc \in {"summariser", "tag_files", "stopped"}
  /\ LET paths == new_filepaths(conf.id, get(conf, "article_cnt", 0),
                                new_urls_file[conf.id])
         read == [k \in 1..Len(paths) |-> Read(articles, paths[k])]
         first == Acquire(read, MAX_CONCURRENT_SESSIONS, 1)
     IN /\ summariser' = [new_filepaths |-> paths]
        /\ task' = first.task
        /\ semaphore' = first.value
  /\ pc' = "process_all_articles"
  /\ UNCHANGED << map_file, urls_file, new_urls_file, articles, maps, cur,
                  extractor, site, cand, results >>

(***************************************************************************)
(* The external call of task t ends in outcome; the task goes on to its    *)
(* end: lines 112-125, then the semaphore is released and its first waiter *)
(* enters the call.                                                        *)
(***************************************************************************)
llm_call_returns(t, outcome, dumped) ==
  /\ pc = "process_all_articles"
  /\ t \in DOMAIN task
  /\ task[t] = "llm_call"
  /\ LET filename == summariser.new_filepaths[t]
         released == Acquire([task EXCEPT ![t] = "done"], semaphore + 1, 1)
     IN /\ articles' = [articles EXCEPT ![filename] =
                          AfterCall(articles[filename], outcome, dumped)]
        /\ task' = released.task
        /\ semaphore' = released.value
  /\ UNCHANGED << map_file, urls_file, new_urls_file, pc, maps, cur,
                  extractor, site, cand, results, summariser >>

(***************************************************************************)
(* summariser.py lines 130-131: every task has returned; the runner goes   *)
(* on to line 33.                                                          *)
(***************************************************************************)
gather_returns ==
  /\ pc = "process_all_articles"
  /\ \A t \in DOMAIN task : task[t] = "done"
  /\ pc' = "tag_files"
  /\ summariser' = NoSummariser
  /\ task' = << >>
  /\ semaphore' = 0
  /\ UNCHANGED << map_file, urls_file, new_urls_file, articles, maps, cur,
                  extractor, site, cand, results >>

(***************************************************************************)
(* summariser.py line 130: the exception of a task leaves gather,          *)
(* process_all_articles and asyncio.run, which cancels the tasks that have *)
(* not ended; nothing in runner.py catches it.                             *)
(***************************************************************************)
gather_raises ==
  /\ pc = "process_all_articles"
  /\ \E t \in DOMAIN task : task[t] = "raised"
  /\ pc' = "stopped"
  /\ summariser' = NoSummariser
  /\ task' = << >>
  /\ semaphore' = 0
  /\ UNCHANGED << map_file, urls_file, new_urls_file, articles, maps, cur,
                  extractor, site, cand, results >>

\* one outcome of a call for each content it can leave in the file of data
\* (outcomes that leave the same content give the same step)
EndsOfCall(data) ==
  LET ends == Outcomes \X BOOLEAN
  IN {CHOOSE e \in ends : AfterCall(data, e[1], e[2]) = after :
        after \in {AfterCall(data, e[1], e[2]) : e \in ends}}

NextSum ==
  \/ process_all_articles /\ UNCHANGED << hist, objs, db, calls >>
  \/ \E t \in {u \in DOMAIN task : task[u] = "llm_call"} :
       \E e \in EndsOfCall(articles[summariser.new_filepaths[t]]) :
         /\ llm_call_returns(t, e[1], e[2])
         /\ UNCHANGED << hist, objs, db, calls >>
  \/ gather_returns /\ UNCHANGED << hist, objs, db, calls >>
  \/ gather_raises /\ UNCHANGED << hist, objs, db, calls >>

InitSum == InitSummariser(0..NSum, FALSE)

SpecSum == InitSum /\ [][NextSum]_vars

\* the stage over larger DeltaSets whose records all have raw content;
\* each call ends in an exception of llm.invoke or in a response that is
\* parsed and saved, so that no record is left truncated and no task raises
InitCap == InitSummariser(0..NBatch, TRUE)

CapEnds ==
  {<< o, TRUE >> : o \in {e \in Outcomes :
     e.raises \/ e.chat_response
                   = << Fence, "json", "{title,summary,keywords}", Fence >>}}

NextCap ==
  \/ process_all_articles /\ UNCHANGED << hist, objs, db, calls >>
  \/ \E t \in {u \in DOMAIN task : task[u] = "llm_call"} :
       \E e \in CapEnds :
         /\ llm_call_returns(t, e[1], e[2])
         /\ UNCHANGED << hist, objs, db, calls >>
  \/ gather_returns /\ UNCHANGED << hist, objs, db, calls >>

SpecCap == InitCap /\ [][NextCap]_vars

(***************************************************************************)
(* Tagger (tagger.py)                                                      *)
(***************************************************************************)
\* the names of tags.json: a tag and a keyword listed under it
TagNames == {"Funding"}

SubtagNames == {"seed"}

\* tagger.py lines 42-46: the paths of a Tagger
tagger_new_filepaths(id, article_cnt, new_article_urls) ==
  [k \in 1..Len(new_article_urls) |-> fileid(id, article_cnt + k)]

\* str(value) of a string or None
str_of(value) == IF value = None THEN "None" ELSE value

\* lines 93-108: what the two matching passes can find in a summary: a
\* tag is added together with a keyword of it
Taggings ==
  {[tags |-> {}, subtags |-> {}], [tags |-> TagNames, subtags |-> SubtagNames]}

\* lines 79-115: the record files after process_single_file(file_path),
\* found being what the matching passes find in its summary
process_single_file(files, file_path, found) ==
  IF file_path \notin DOMAIN files THEN files
  ELSE LET data == files[file_path]
       IN IF data = Malformed THEN files
          ELSE IF str_of(get(data, "summary", "")) = "" THEN files
          ELSE [files EXCEPT ![file_path] =
                  [f \in DOMAIN data \cup {"tags", "subtags"} |->
                     IF f = "tags" THEN found.tags
                     ELSE IF f = "subtags" THEN found.subtags
                     ELSE data[f]]]

\* lines 65-66: the loop of tag_files from the k-th path on
RECURSIVE TagFiles(_, _, _, _)
TagFiles(files, paths, found, k) ==
  IF k > Len(paths) THEN files
  ELSE TagFiles(process_single_file(files, paths[k], found[k]), paths,
                found, k + 1)

(***************************************************************************)
(* runner.py lines 33-34: Tagger(conf, tags_path), then tag_files().       *)
(* exists: config/tags.json is there; when it is not, open raises out of   *)
(* Tagger.__init__ and nothing in runner.py catches it.                    *)
(***************************************************************************)
tag_files(exists, found) ==
  /\ pc = "tag_files"
  /\ LET paths == tagger_new_filepaths(conf.id,
                                       get(conf, "article_cnt", 0),
                                       new_urls_file[conf.id])
     IN IF exists
        THEN /\ tt' = [new_filepaths |-> paths]
             /\ articles' = TagFiles(articles, paths, found, 1)
             /\ pc' = "process_file_list"
        ELSE /\ tt' = NoTagger
             /\ articles' = articles
             /\ pc' = "stopped"
  /\ UNCHANGED << map_file, urls_file, new_urls_file, maps, cur, extractor,
                  site, cand, results >>

\* the Summariser stage and the Tagger stage over the records of one
\* DeltaSet
NextTag ==
  \/ NextSum
  \/ /\ pc = "tag_files"
     /\ \E exists \in BOOLEAN :
          \E found \in [1..Len(new_urls_file[conf.id]) -> Taggings] :
            tag_files(exists, found)
     /\ UNCHANGED << hist, sumv, agent, db, calls >>

SpecTag == InitSum /\ [][NextTag]_vars

(***************************************************************************)
(* DBHandler (dbmanager.py): the tables of news.db.                        *)
(***************************************************************************)
\* what insert_article is called with: html is the URL of the record, pos
\* its path, tags and subtags names of tags.json
DbHtmls == {1, 2}

DbPos == {fileid(InitMaps[1].id, k) : k \in 1..2}

\* get_or_create_tag: the table after the call; its ids are handed out in
\* order and no row of it is ever deleted
get_or_create(table, names) ==
  IF names \subseteq {r.name : r \in table} THEN table
  ELSE LET missing == ListOfSet(names \ {r.name : r \in table})
           order == CHOOSE l \in missing : TRUE
       IN table \cup {[id |-> Cardinality(table) + k, name |-> order[k]] :
                        k \in 1..Len(order)}

\* the id of a name in a tags table
IdOf(table, name) == (CHOOSE r \in table : r.name = name).id

\* delete_duplicates grouping the rows by pos alone
MinIdsByPos(rows) ==
  {Min({q.id : q \in {x \in rows : x.pos = r.pos}}) : r \in rows}

\* SELECT MIN(id) FROM articles GROUP BY pos, html
MinIds(rows) ==
  {Min({q.id : q \in {x \in rows : x.pos = r.pos /\ x.html = r.html}}) :
     r \in rows}

\* DELETE FROM articles WHERE id NOT IN (...): the rows left
DeleteDuplicates(rows) == {r \in rows : r.id \in MinIds(rows)}

\* dbmanager.py lines 37-40: the paths of a DBHandler
dbhandler_new_filepaths(id, article_cnt, new_article_urls) ==
  [k \in 1..Len(new_article_urls) |-> fileid(id, article_cnt + k)]

\* the tables of news.db as one value
Tables ==
  [articles |-> db_articles, seq |-> db_seq, tags |-> db_tags,
   subtags |-> db_subtags, article_tags |-> db_article_tags,
   article_subtags |-> db_article_subtags]

\* the tables become t
SetTables(t) ==
  /\ db_articles' = t.articles
  /\ db_seq' = t.seq
  /\ db_tags' = t.tags
  /\ db_subtags' = t.subtags
  /\ db_article_tags' = t.article_tags
  /\ db_article_subtags' = t.article_subtags

\* lines 114-132: the tables after insert_article(html, pos, tags, subtags)
InsertArticle(t, html, pos, tags, subtags) ==
  LET article_id == t.seq + 1
      tags_table == get_or_create(t.tags, tags)
      subtags_table == get_or_create(t.subtags, subtags)
  IN [articles |->
        t.articles \cup {[id |-> article_id, html |-> html, pos |-> pos]},
      seq |-> article_id,
      tags |-> tags_table,
      subtags |-> subtags_table,
      article_tags |-> t.article_tags \cup
        {[article_id |-> article_id, tag_id |-> IdOf(tags_table, tag)] :
           tag \in tags},
      article_subtags |-> t.article_subtags \cup
        {[article_id |-> article_id,
          subtag_id |-> IdOf(subtags_table, subtag)] : subtag \in subtags}]

\* the rows of a join table after a DELETE on articles has left rows.
\* foreign_keys: the connection enforces foreign keys.  No statement of
\* dbmanager.py sets PRAGMA foreign_keys, so this is the default of the
\* SQLite library: off, unless the library was built with
\* SQLITE_DEFAULT_FOREIGN_KEYS=1.
Cascade(join, rows, foreign_keys) ==
  IF foreign_keys THEN {j \in join : j.article_id \in {r.id : r \in rows}}
  ELSE join

\* pos LIKE '%date%' for a date of digits: date is a run of characters of
\* pos (no date used here starts or ends with a digit of the source id)
Like(pos, date) ==
  \E i \in 1..(Len(pos) - Len(date) + 1) :
    SubSeq(pos, i, i + Len(date) - 1) = date

\* the dates delete_date is called with
Dates == {<< "0", "1" >>, << "2" >>, << "2", "0", "2", "6" >>}

\* lines 140-157: the loop of process_file_list from the k-th path on.  A
\* file that is missing or does not parse is passed over (line 156); the
\* path of a record is a sequence of characters, the empty string << >>.
RECURSIVE ProcessFileList(_, _, _, _)
ProcessFileList(t, files, paths, k) ==
  IF k > Len(paths) THEN t
  ELSE IF paths[k] \notin DOMAIN files \/ files[paths[k]] = Malformed
  THEN ProcessFileList(t, files, paths, k + 1)
  ELSE LET data == files[paths[k]]
           html == get(data, "url", "")
           pos == get(data, "path", << >>)
           tags == get(data, "tags", {})
           subtags == get(data, "subtags", {})
       IN IF pos # << >>
          THEN ProcessFileList(InsertArticle(t, html, pos, tags, subtags),
                               files, paths, k + 1)
          ELSE ProcessFileList(t, files, paths, k + 1)

InitDB ==
  /\ map_file = InitMaps
  /\ InitFiles
  /\ site[InitMaps[1].id] # {}

(***************************************************************************)
(* dbmanager.py lines 114-132: insert_article(html, pos, tags, subtags).   *)
(* The guard keeps the AUTOINCREMENT id within MaxRows.                    *)
(***************************************************************************)
insert_article(html, pos, tags, subtags) ==
  /\ db_seq < MaxRows
  /\ SetTables(InsertArticle(Tables, html, pos, tags, subtags))

(***************************************************************************)
(* dbmanager.py lines 164-174: delete_duplicates.                          *)
(***************************************************************************)
delete_duplicates(foreign_keys) ==
  /\ db_articles' = DeleteDuplicates(db_articles)
  /\ db_article_tags' = Cascade(db_article_tags, db_articles', foreign_keys)
  /\ db_article_subtags' =
       Cascade(db_article_subtags, db_articles', foreign_keys)
  /\ UNCHANGED << db_seq, db_tags, db_subtags >>

(***************************************************************************)
(* dbmanager.py lines 176-183: delete_date(date).                          *)
(***************************************************************************)
delete_date(date, foreign_keys) ==
  /\ db_articles' = {r \in db_articles : ~ Like(r.pos, date)}
  /\ db_article_tags' = Cascade(db_article_tags, db_articles', foreign_keys)
  /\ db_article_subtags' =
       Cascade(db_article_subtags, db_articles', foreign_keys)
  /\ UNCHANGED << db_seq, db_tags, db_subtags >>

\* the operations of a DBHandler on news.db, no runner at work
NextDB ==
  \/ \E html \in DbHtmls : \E pos \in DbPos :
       \E tags \in SUBSET TagNames : \E subtags \in SUBSET SubtagNames :
         /\ insert_article(html, pos, tags, subtags)
         /\ UNCHANGED << prog, hist, sumv, objs, calls >>
  \/ \E foreign_keys \in BOOLEAN :
       /\ delete_duplicates(foreign_keys)
       /\ UNCHANGED << prog, hist, sumv, objs, calls >>
  \/ \E date \in Dates : \E foreign_keys \in BOOLEAN :
       /\ delete_date(date, foreign_keys)
       /\ UNCHANGED << prog, hist, sumv, objs, calls >>

SpecDB == InitDB /\ [][NextDB]_vars

(***************************************************************************)
(* SpecRun: the whole loop of runner.py, lines 18-40, while the summarizer *)
(* is out of reach: llm.invoke raises in every call and the records stay   *)
(* as the fetch left them.  No page is fetched empty.                      *)
(***************************************************************************)
\* the ends of a call of the summarizer when it is out of reach
RunEnds == {e \in CapEnds : e[1].raises}

\* runner.py lines 36-37: DBHandler(conf), then process_file_list().  The
\* guard keeps the AUTOINCREMENT id within MaxRows.
process_file_list ==
  /\ pc = "process_file_list"
  /\ LET paths == dbhandler_new_filepaths(conf.id,
                                          get(conf, "article_cnt", 0),
                                          new_urls_file[conf.id])
     IN /\ db_seq + Len(paths) <= MaxRows
        /\ agent' = [new_filepaths |-> paths]
        /\ SetTables(ProcessFileList(Tables, articles, paths, 1))
  /\ pc' = "delete_duplicates"
  /\ UNCHANGED << map_file, urls_file, new_urls_file, articles, maps, cur,
                  extractor, site, cand, results >>

\* runner.py line 38: agent.delete_duplicates()
agent_delete_duplicates(foreign_keys) ==
  /\ pc = "delete_duplicates"
  /\ delete_duplicates(foreign_keys)
  /\ pc' = "merge_files"
  /\ UNCHANGED << map_file, urls_file, new_urls_file, articles, maps, cur,
                  extractor, site, cand, results >>

\* the process stops at any point of the loop; the objects of the
\* iteration are gone with it
StopRun ==
  /\ Stop
  /\ summariser' = NoSummariser
  /\ task' = << >>
  /\ semaphore' = 0
  /\ tt' = NoTagger
  /\ agent' = NoDBHandler

NextRun ==
  \/ LoadMaps /\ UNCHANGED << hist, stages >>
  \/ \E urls \in SUBSET URLs :
       update_file(urls) /\ UNCHANGED << hist, stages >>
  \/ \E cur_urls \in SUBSET URLs :
       process(cur_urls) /\ UNCHANGED << hist, stages >>
  \/ ArticleExtractorInit /\ UNCHANGED << hist, stages >>
  \/ \E ok \in SUBSET Range(extractor.new_urls) :
       \E html \in [ok -> Htmls \ {""}] :
         ExtractArticles(ok, html, "summariser") /\ UNCHANGED << hist, stages >>
  \/ /\ pc = "summariser"
     /\ process_all_articles
     /\ UNCHANGED << hist, objs, db, calls >>
  \/ \E t \in {u \in DOMAIN task : task[u] = "llm_call"} :
       \E e \in RunEnds :
         /\ llm_call_returns(t, e[1], e[2])
         /\ UNCHANGED << hist, objs, db, calls >>
  \/ gather_returns /\ UNCHANGED << hist, objs, db, calls >>
  \/ /\ pc = "tag_files"
     /\ \E exists \in BOOLEAN :
          \E found \in [1..Len(new_urls_file[conf.id]) -> Taggings] :
            tag_files(exists, found)
     /\ UNCHANGED << hist, sumv, agent, db, calls >>
  \/ process_file_list /\ UNCHANGED << hist, sumv, tt, calls >>
  \/ \E foreign_keys \in BOOLEAN :
       /\ agent_delete_duplicates(foreign_keys)
       /\ UNCHANGED << hist, sumv, objs, calls >>
  \/ merge_files /\ UNCHANGED << hist, stages >>
  \/ StopRun /\ UNCHANGED << hist, db, calls >>

SpecRun == Init /\ [][NextRun]_vars

(***************************************************************************)
(* SpecIter: one iteration of the loop of runner.py from line 27 on, for   *)
(* either source, over any DeltaSet file a reconcile or a commit can have  *)
(* left (a list of distinct URLs in any order) and no record file.         *)
(***************************************************************************)
InitIter ==
  /\ map_file = InitMaps
  /\ maps = InitMaps
  /\ cur \in 1..Len(InitMaps)
  /\ urls_file = [id \in Ids |-> {}]
  /\ \E S \in SUBSET URLs : \E delta \in ListOfSet(S) :
       new_urls_file = [id \in Ids |-> IF id = InitMaps[cur].id
                                       THEN delta ELSE << >>]
  /\ articles = << >>
  /\ pc = "extractor"
  /\ extractor = NoExtractor
  /\ site = [id \in Ids |-> {}]
  /\ cand = {}
  /\ results = {}
  /\ merged = [id \in Ids |-> FALSE]
  /\ prev_cand = [id \in Ids |-> NoCand]
  /\ snap = [id \in Ids |-> NoSnap]
  /\ alloc_log = {}
  /\ summariser = NoSummariser
  /\ task = << >>
  /\ semaphore = 0
  /\ tt = NoTagger
  /\ agent = NoDBHandler
  /\ merge = NoMerge
  /\ db_articles = {}
  /\ db_seq = 0
  /\ db_tags = {}
  /\ db_subtags = {}
  /\ db_article_tags = {}
  /\ db_article_subtags = {}

NextIter ==
  \/ ArticleExtractorInit /\ UNCHANGED << hist, stages >>
  \/ \E ok \in SUBSET Range(extractor.new_urls) :
       \E html \in [ok -> Htmls] :
         ExtractArticles(ok, html, "summariser") /\ UNCHANGED << hist, stages >>
  \/ /\ pc = "summariser"
     /\ process_all_articles
     /\ UNCHANGED << hist, objs, db, calls >>
  \/ \E t \in {u \in DOMAIN task : task[u] = "llm_call"} :
       \E e \in EndsOfCall(articles[summariser.new_filepaths[t]]) :
         /\ llm_call_returns(t, e[1], e[2])
         /\ UNCHANGED << hist, objs, db, calls >>
  \/ gather_returns /\ UNCHANGED << hist, objs, db, calls >>
  \/ /\ pc = "tag_files"
     /\ \E exists \in BOOLEAN :
          \E found \in [1..Len(new_urls_file[conf.id]) -> Taggings] :
            tag_files(exists, found)
     /\ UNCHANGED << hist, sumv, agent, db, calls >>
  \/ process_file_list /\ UNCHANGED << hist, sumv, tt, calls >>
  \/ \E foreign_keys \in BOOLEAN :
       /\ agent_delete_duplicates(foreign_keys)
       /\ UNCHANGED << hist, sumv, objs, calls >>
  \/ merge_files /\ UNCHANGED << hist, stages >>

SpecIter == InitIter /\ [][NextIter]_vars

(***************************************************************************)
(* Steps of the pipeline, told by the position of the runner               *)
(***************************************************************************)
IsUpdateFile == pc = "reconcile" /\ pc' = "extractor" /\ conf.type = "rss"

IsProcess == pc = "reconcile" /\ pc' = "extractor" /\ conf.type = "xpath"

IsMapUrls == pc = "extractor" /\ pc' = "extract_articles"

IsExtractArticles == pc = "extract_articles" /\ pc' = "merge_files"

IsMergeFiles == pc = "merge_files" /\ pc' \in {"reconcile", "done"}

\* article_cnt of the source id in a config list
CntOf(map_data, id) ==
  (CHOOSE e \in Range(map_data) : e.id = id).article_cnt

Distinct(seq) == \A i, j \in 1..Len(seq) : seq[i] = seq[j] => i = j

\* the index k < 10000 written as four decimal digits
FourDigits(k) ==
  << DigitChar[((k \div 1000) % 10) + 1], DigitChar[((k \div 100) % 10) + 1],
     DigitChar[((k \div 10) % 10) + 1], DigitChar[(k % 10) + 1] >>

(***************************************************************************)
(* C1: no index {id}_{NNNN} is ever allocated to two different URLs, over  *)
(* any sequence of runs, stopped ones included.  Stated as is; the         *)
(* pipeline violates it.                                                   *)
(***************************************************************************)
C1_NoIndexReuse ==
  \A a, b \in alloc_log : (a[1] = b[1] /\ a[2] = b[2]) => a[3] = b[3]

(***************************************************************************)
(* C2: restart contract: a run that stopped after the fetch and before     *)
(* merge_files, started again with the same candidates, gets the same      *)
(* DeltaSet and maps every URL to the same index.  Stated as is; the       *)
(* pipeline violates it.                                                   *)
(***************************************************************************)
C2_RestartContract ==
  [][(IsMapUrls /\ snap[conf.id].valid /\ snap[conf.id].fetched
        /\ cand = snap[conf.id].cand)
       => /\ Range(new_urls_file[conf.id]) = Range(snap[conf.id].delta)
          /\ extractor'.map = snap[conf.id].map]_vars

(***************************************************************************)
(* C3: after update_file with a non-empty candidate list C and cumulative  *)
(* set U, the DeltaSet file holds exactly C minus U, the cumulative file   *)
(* exactly C union U, and the delta shares no element with U.              *)
(***************************************************************************)
C3_DeltaCorrect ==
  [][(IsUpdateFile /\ cand' # {})
       => LET U == urls_file[conf.id]
              delta == Range(new_urls_file'[conf.id])
          IN /\ delta = cand' \ U
             /\ urls_file'[conf.id] = cand' \cup U
             /\ delta \cap U = {}
             /\ Distinct(new_urls_file'[conf.id])]_vars

\* update_file has just run on candidates of which one was known and one new
C3_Witness ==
  /\ pc = "extractor"
  /\ conf.type = "rss"
  /\ new_urls_file[conf.id] # << >>
  /\ cand \cap (urls_file[conf.id] \ Range(new_urls_file[conf.id])) # {}

(***************************************************************************)
(* C4: after CustomScraper.process with candidates C and cumulative U the  *)
(* DeltaSet file holds C minus U and urls/{id}.json holds C union U.       *)
(* Stated as is; the pipeline violates it.                                 *)
(***************************************************************************)
C4_XpathReconcile ==
  [][IsProcess
       => LET U == urls_file[conf.id]
          IN /\ Range(new_urls_file'[conf.id]) = cand' \ U
             /\ urls_file'[conf.id] = cand' \cup U]_vars

(***************************************************************************)
(* C5: when discovery returns no URL, after reconcile the DeltaSet file    *)
(* the later stages read is empty and the cumulative set is unchanged.     *)
(* Stated as is; the pipeline violates it.                                 *)
(***************************************************************************)
C5_EmptyCandidates ==
  [][((IsUpdateFile \/ IsProcess) /\ cand' = {})
       => /\ new_urls_file'[conf.id] = << >>
          /\ urls_file'[conf.id] = urls_file[conf.id]]_vars

(***************************************************************************)
(* C6: merge_files adds the length of the on-disk DeltaSet to article_cnt  *)
(* of its source (nothing when the DeltaSet is empty), and no step of the  *)
(* pipeline decreases the article_cnt of any source.                       *)
(***************************************************************************)
C6_CommitMonotone ==
  [][/\ \A id \in Ids : CntOf(map_file', id) >= CntOf(map_file, id)
     /\ IsMergeFiles
          => /\ CntOf(map_file', conf.id) =
                  CntOf(map_file, conf.id) + Len(new_urls_file[conf.id])
             /\ new_urls_file[conf.id] = << >>
                  => CntOf(map_file', conf.id) = CntOf(map_file, conf.id)]_vars

\* the loop has ended and a commit has advanced an offset
C6_Witness ==
  /\ pc = "done"
  /\ \E k \in 1..Len(map_file) :
       map_file[k].article_cnt > InitMaps[k].article_cnt

(***************************************************************************)
(* C7: article_cnt is advanced once per run: a merge_files that follows a  *)
(* merge_files of the same source, with no DeltaSet written in between,    *)
(* does not advance article_cnt again.  Stated as is; the pipeline         *)
(* violates it.                                                            *)
(***************************************************************************)
C7_AdvancedOnce ==
  [][(IsMergeFiles /\ merged[conf.id])
       => CntOf(map_file', conf.id) = CntOf(map_file, conf.id)]_vars

(***************************************************************************)
(* C8: a reconcile called again with the same candidates and no commit in  *)
(* between yields an empty delta and leaves the cumulative set as it was,  *)
(* for both reconcilers.  Stated as is; the pipeline violates it.          *)
(***************************************************************************)
C8_ReconcileReplay ==
  [][((IsUpdateFile \/ IsProcess) /\ prev_cand[conf.id].valid
        /\ cand' = prev_cand[conf.id].cand)
       => /\ new_urls_file'[conf.id] = << >>
          /\ urls_file'[conf.id] = urls_file[conf.id]]_vars

(***************************************************************************)
(* C9: map_urls maps the n distinct URLs of the DeltaSet list one-to-one   *)
(* onto article_cnt+1 .. article_cnt+n in the order of the list, and every *)
(* record the fetch writes has the key {id}_{index in four digits} of its  *)
(* URL.                                                                    *)
(***************************************************************************)
C9_AllocationRange ==
  [][/\ (IsMapUrls /\ Distinct(new_urls_file[conf.id]))
          => LET delta == new_urls_file[conf.id]
                 map == extractor'.map
             IN /\ DOMAIN map = Range(delta)
                /\ \A i \in 1..Len(delta) :
                     map[delta[i]] = conf.article_cnt + i
                /\ {map[url] : url \in DOMAIN map} =
                     (conf.article_cnt + 1)..(conf.article_cnt + Len(delta))
     /\ IsExtractArticles
          => \A p \in DOMAIN articles' :
               (p \notin DOMAIN articles \/ articles'[p] # articles[p])
                 => \E i \in 1..Len(extractor.new_urls) :
                      /\ articles'[p].url = extractor.new_urls[i]
                      /\ p = << conf.id, "_" >>
                               \o FourDigits(conf.article_cnt + i)
                      /\ articles'[p].path = p]_vars

\* the fetch has written the record of the second URL of a delta that was
\* allocated above a non-zero offset crossing into two digits
C9_Witness ==
  /\ pc = "merge_files"
  /\ Len(extractor.new_urls) >= 2
  /\ conf.article_cnt = 9
  /\ << conf.id, "_", "0", "0", "1", "1" >> \in DOMAIN articles
  /\ articles[<< conf.id, "_", "0", "0", "1", "1" >>].url
       = extractor.new_urls[2]

(***************************************************************************)
(* C10: two executions of reconcile and allocation that start from the     *)
(* same article_cnt and produce the same delta set yield the same          *)
(* (index, url) pairs, whatever the iteration order of the set.  Stated as *)
(* is; the pipeline violates it.                                           *)
(***************************************************************************)
C10_IndexDeterminism ==
  [][(IsMapUrls /\ snap[conf.id].valid
        /\ snap[conf.id].cnt = conf.article_cnt
        /\ Range(snap[conf.id].delta) = Range(new_urls_file[conf.id]))
       => extractor'.map = snap[conf.id].map]_vars

(***************************************************************************)
(* C11: the fetch skips what is already done: extract_articles leaves      *)
(* every record that already has non-empty raw content as it is.  Stated   *)
(* as is; the pipeline violates it.                                        *)
(***************************************************************************)
C11_FetchSkipsDone ==
  [][IsExtractArticles
       => \A p \in DOMAIN articles :
            articles[p].html # "" => articles'[p] = articles[p]]_vars

(***************************************************************************)
(* C16: in extract_articles a URL whose fetch fails does not abort the     *)
(* batch: every URL of the delta whose fetch succeeds has its record       *)
(* written under its own index, and no record is written under the index   *)
(* of a URL whose fetch failed.                                            *)
(***************************************************************************)
C16_PartialFailure ==
  [][IsExtractArticles
       => LET path(url) == fileid(conf.id, extractor.map[url])
          IN /\ \A url \in results' :
                  /\ path(url) \in DOMAIN articles'
                  /\ articles'[path(url)].url = url
                  /\ articles'[path(url)].path = path(url)
             /\ \A url \in Range(extractor.new_urls) \ results' :
                  \/ path(url) \notin DOMAIN articles'
                  \/ /\ path(url) \in DOMAIN articles
                     /\ articles'[path(url)] = articles[path(url)]]_vars

\* the fetch of the first URL of the delta failed, that of the second
\* succeeded and its record is there
C16_Witness ==
  /\ pc = "merge_files"
  /\ Len(extractor.new_urls) >= 2
  /\ extractor.new_urls[1] \notin results
  /\ extractor.new_urls[2] \in results
  /\ fileid(conf.id, extractor.map[extractor.new_urls[2]]) \in DOMAIN articles
  /\ fileid(conf.id, extractor.map[extractor.new_urls[1]])
       \notin DOMAIN articles

(***************************************************************************)
(* C18: the cumulative URLSet only grows: no step of the pipeline removes  *)
(* a URL from urls/{id}.json of any source.                                *)
(***************************************************************************)
C18_CumulativeGrows ==
  [][\A id \in Ids : urls_file[id] \subseteq urls_file'[id]]_vars

\* update_file has just run on candidates that do not list a URL the
\* cumulative set had, and the set still has it
C18_Witness ==
  /\ pc = "extractor"
  /\ conf.type = "rss"
  /\ cand # {}
  /\ urls_file[conf.id] \ cand # {}

(***************************************************************************)
(* C20: after merge_files new_urls/{id}.json holds exactly the union of    *)
(* the DeltaSet and the cumulative URLSet as they were on disk when the     *)
(* call started, also when the DeltaSet was empty.                         *)
(***************************************************************************)
C20_PostCommitDelta ==
  [][IsMergeFiles
       => /\ Range(new_urls_file'[conf.id]) =
               Range(new_urls_file[conf.id]) \cup urls_file[conf.id]
          /\ Distinct(new_urls_file'[conf.id])
          /\ new_urls_file[conf.id] = << >>
               => Range(new_urls_file'[conf.id]) = urls_file[conf.id]]_vars

\* the loop has ended and a source whose offset never advanced (each of
\* its commits found an empty DeltaSet) has the cumulative set in its
\* DeltaSet file
C20_Witness ==
  /\ pc = "done"
  /\ \E k \in 1..Len(map_file) :
       /\ map_file[k].article_cnt = InitMaps[k].article_cnt
       /\ new_urls_file[map_file[k].id] # << >>
       /\ Range(new_urls_file[map_file[k].id]) = urls_file[map_file[k].id]

(***************************************************************************)
(* C19: when the config entry of the source has no article_cnt, the        *)
(* allocation fails and assigns no index; it does not go on from a         *)
(* substituted offset.  Stated as is; the pipeline violates it.            *)
(***************************************************************************)
C19_UnreadableOffset ==
  [][(pc = "extractor" /\ "article_cnt" \notin DOMAIN conf)
       => DOMAIN extractor'.map = {}]_vars

(***************************************************************************)
(* C12: a Summariser stage over a record that already has a non-empty      *)
(* summary makes no external call for it (its task is never at the         *)
(* semaphore nor inside the call) and leaves the record file as it is,     *)
(* however often the stage is run.                                         *)
(***************************************************************************)
C12_SummariseSkipsDone ==
  [][\A p \in DOMAIN articles :
       get(articles[p], "summary", "") # ""
         => /\ articles'[p] = articles[p]
            /\ \A t \in DOMAIN task' :
                 summariser'.new_filepaths[t] = p
                   => task'[t] \notin {"acquire", "llm_call"}]_vars

\* a later stage is under way: the task of a record that an earlier stage
\* summarised has returned while the call of another task is still out
C12_Witness ==
  /\ pc = "process_all_articles"
  /\ \E t, u \in DOMAIN task :
       /\ task[t] = "done"
       /\ summariser.new_filepaths[t] \in DOMAIN articles
       /\ get(articles[summariser.new_filepaths[t]], "summary", "") # ""
       /\ task[u] = "llm_call"

C14_FailureIsolation ==
  \A t \in DOMAIN task : task[t] # "raised"

(***************************************************************************)
(* C15: at every point of process_all_articles at most                     *)
(* MAX_CONCURRENT_SESSIONS tasks are inside the external call, whatever    *)
(* the size of the batch.                                                  *)
(***************************************************************************)
C15_ConcurrencyCap ==
  Cardinality({t \in DOMAIN task : task[t] = "llm_call"})
    <= MAX_CONCURRENT_SESSIONS

\* as many tasks as the semaphore admits are inside the call and another
\* waits at the semaphore
C15_Witness ==
  /\ Cardinality({t \in DOMAIN task : task[t] = "llm_call"})
       = MAX_CONCURRENT_SESSIONS
  /\ \E t \in DOMAIN task : task[t] = "acquire"
  /\ semaphore = 0

(***************************************************************************)
(* C17: after delete_duplicates, whatever the table held, no two rows of   *)
(* articles share the same (pos, html), the row left of each pair is the   *)
(* one with the lowest id, and every (pos, html) that was in the table is  *)
(* still in it.                                                            *)
(***************************************************************************)
C17_RelationalDedup ==
  [][(\E foreign_keys \in BOOLEAN : delete_duplicates(foreign_keys))
       => /\ \A r, q \in db_articles' :
               (r.pos = q.pos /\ r.html = q.html) => r = q
          /\ db_articles' \subseteq db_articles
          /\ \A r \in db_articles :
               \E q \in db_articles' :
                 /\ q.pos = r.pos
                 /\ q.html = r.html
                 /\ q.id <= r.id]_vars

\* rows have been deleted (every id up to db_seq was inserted) and two rows
\* with the same pos and different html are left
C17_Witness ==
  /\ Cardinality(db_articles) < db_seq
  /\ \E r, q \in db_articles : r.pos = q.pos /\ r.html # q.html
  /\ \A r, q \in db_articles : (r.pos = q.pos /\ r.html = q.html) => r = q

(***************************************************************************)
(* C28: no record becomes unsummarisable: whatever the response of the     *)
(* summarizer, a record that process_article has gone through still has    *)
(* its raw content or has a summary; no record is left with the raw        *)
(* content removed and no summary.  Stated as is; the stage violates it.   *)
(***************************************************************************)
C28_StaysSummarisable ==
  \A p \in DOMAIN articles :
    articles[p] # Malformed
      => \/ "html" \in DOMAIN articles[p]
         \/ bool(get(articles[p], "summary", ""))

(***************************************************************************)
(* C21: stages are ordered by their completion predicates: tags and        *)
(* subtags are only ever in a record that has a non-empty summary, and a   *)
(* summary is written only to a record that had non-empty raw content.     *)
(* Stated as is; the stages violate it.                                    *)
(***************************************************************************)
C21_StageOrdering ==
  [][\A p \in DOMAIN articles' :
       /\ "tags" \in DOMAIN articles'[p]
            => bool(get(articles'[p], "summary", ""))
       /\ ("summary" \in DOMAIN articles'[p]
             /\ "summary" \notin DOMAIN articles[p])
            => get(articles[p], "html", "") # ""]_vars

(***************************************************************************)
(* C25: cascade delete of join rows: whatever delete_duplicates and        *)
(* delete_date have removed from articles, every row of article_tags and   *)
(* of article_subtags refers to an id that is in articles.  Stated as is;  *)
(* DBHandler violates it.                                                  *)
(***************************************************************************)
C25_CascadeDelete ==
  LET ids == {r.id : r \in db_articles}
  IN /\ \A j \in db_article_tags : j.article_id \in ids
     /\ \A j \in db_article_subtags : j.article_id \in ids

(***************************************************************************)
(* C23: a configuration error is isolated to its source: when the tag      *)
(* taxonomy file is missing at the Tagger of a source that is not the last *)
(* of the config list, the runner goes on to the next source.  Stated as   *)
(* is; the runner violates it.                                             *)
(***************************************************************************)
C23_ConfigErrorIsolated ==
  [][(pc = "tag_files" /\ cur < Len(maps) /\ tag_files(FALSE, << >>))
       => (pc' = "reconcile" /\ cur' = cur + 1)]_vars

(***************************************************************************)
(* C24: pos is unique in table articles: when a run has ended its Persist  *)
(* stage with delete_duplicates, stopped runs included, no two rows have   *)
(* the same pos and different URLs.  Stated as is; the pipeline violates   *)
(* it.                                                                     *)
(***************************************************************************)
C24_PosUnique ==
  pc \in {"merge_files", "reconcile", "done"}
    => \A r, q \in db_articles : r.pos = q.pos => r.html = q.html

(***************************************************************************)
(* C22: within one iteration of the runner loop the paths that the         *)
(* Summariser, the Tagger and the DBHandler derive are, in the order of    *)
(* the DeltaSet, the keys {id}_{index} that the ArticleExtractor of the    *)
(* iteration allocated to the URLs of the delta.                           *)
(***************************************************************************)
C22_SameKeyList ==
  [][LET allocated ==
           [k \in 1..Len(extractor.new_urls) |->
              fileid(conf.id, extractor.map[extractor.new_urls[k]])]
     IN /\ (pc = "summariser" /\ pc' = "process_all_articles")
             => summariser'.new_filepaths = allocated
        /\ (pc = "tag_files" /\ pc' = "process_file_list")
             => tt'.new_filepaths = allocated
        /\ (pc = "process_file_list" /\ pc' = "delete_duplicates")
             => agent'.new_filepaths = allocated]_vars

\* the three stages have run over a delta of two URLs allocated above an
\* offset that is not zero, and the records the fetch wrote under the
\* allocated keys are the ones the DBHandler persisted
C22_Witness ==
  /\ pc = "merge_files"
  /\ Len(extractor.new_urls) >= 2
  /\ conf.article_cnt > 0
  /\ agent.new_filepaths = tt.new_filepaths
  /\ \A k \in 1..Len(agent.new_filepaths) :
       /\ agent.new_filepaths[k] \in DOMAIN articles
       /\ articles[agent.new_filepaths[k]].url = extractor.new_urls[k]
       /\ \E r \in db_articles :
            r.pos = agent.new_filepaths[k] /\ r.html = extractor.new_urls[k]

(***************************************************************************)
(* C26: each URL is processed at most once per source: over runs that all  *)
(* complete, a URL that map_urls has given an index is never given a       *)
(* different index by a later run.  Stated as is; the pipeline violates    *)
(* it.                                                                     *)
(***************************************************************************)
C26_ProcessedOnce ==
  \A a, b \in alloc_log : (a[1] = b[1] /\ a[3] = b[3]) => a[2] = b[2]

(***************************************************************************)
(* C27: the offset equals the size of the cumulative set: for the rss      *)
(* source, deployed with article_cnt = 0 and no URL file, after every      *)
(* merge_files of runs that all complete article_cnt is the number of URLs *)
(* in urls/{id}.json.  Stated as is; the pipeline violates it.             *)
(***************************************************************************)
C27_OffsetIsSize ==
  [][(IsMergeFiles /\ conf.type = "rss")
       => CntOf(map_file', conf.id) = Cardinality(urls_file'[conf.id])]_vars

(***************************************************************************)
(* C30: frame of the commit: merge_files for a source changes nothing but  *)
(* new_urls/{id}.json of that source and the article_cnt of its config     *)
(* entry: the cumulative URL files, the record files, the DeltaSet files   *)
(* of the other sources and every other field and entry of the config      *)
(* list are as they were.                                                  *)
(***************************************************************************)
C30_CommitFrame ==
  [][IsMergeFiles
       => /\ urls_file' = urls_file
          /\ articles' = articles
          /\ \A id \in Ids \ {conf.id} :
               new_urls_file'[id] = new_urls_file[id]
          /\ Len(map_file') = Len(map_file)
          /\ \A k \in 1..Len(map_file) :
               /\ DOMAIN map_file'[k] = DOMAIN map_file[k]
               /\ \A f \in DOMAIN map_file[k] :
                    (map_file[k].id # conf.id \/ f # "article_cnt")
                      => map_file'[k][f] = map_file[k][f]]_vars

\* merge_files has run for the first source and advanced its offset while
\* both sources have a DeltaSet file that is not empty, the first source
\* has a cumulative set and the other source has a record
C30_Witness ==
  /\ pc = "reconcile"
  /\ cur = 2
  /\ map_file[1].article_cnt > InitMaps[1].article_cnt
  /\ \A id \in Ids : new_urls_file[id] # << >>
  /\ urls_file[InitMaps[1].id] # {}
  /\ fileid(InitMaps[2].id, InitMaps[2].article_cnt + 1) \in DOMAIN articles

(***************************************************************************)
(* C29: commits of different sources that run at the same time lose no     *)
(* update: when the calls of merge_files for two sources have both         *)
(* returned, whatever the order of their file reads and writes, the config *)
(* list has the article_cnt of each source advanced by the size of the     *)
(* delta its call read.  Stated as is; merge_files violates it.            *)
(***************************************************************************)
C29_NoLostUpdate ==
  (\A id \in Ids : merge[id].pc = "returned")
    => \A id \in Ids :
         CntOf(map_file, id) = CntOf(InitMaps, id) + Len(merge[id].new_urls)

====
